---- MODULE Spec2Model ----
(***************************************************************************)
(* Model of app/app.py: the Flask request handlers of the brain-tumor MRI   *)
(* classifier, the Predictor (predict_image) and the in-memory statistics   *)
(* tracker (update_statistics).                                             *)
(*                                                                          *)
(* Conventions.  A Python value that may be None is a set: {} is None and   *)
(* {x} is the value x.  A filename is a sequence of one-character strings.  *)
(* A probability is an integer number of thousandths.  A datetime is a      *)
(* record [date, tod]: the calendar date and the time of day within it.     *)
(***************************************************************************)
EXTENDS Integers, Sequences, FiniteSets

(***************************************************************************)
(* Bounds of the model.                                                     *)
(***************************************************************************)
MaxCalls == 2
MaxDay == 1

TimesOfDay == {0, 1}
\* two request threads are enough for an update to be lost
Threads == {1, 2}

None == {}
Some(x) == {x}
Get(opt) == CHOOSE x \in opt : TRUE

(***************************************************************************)
(* Module-level constants of app.py.                                        *)
(***************************************************************************)
MAX_CONTENT_LENGTH == 16 * 1024 * 1024

CLASS_NAMES == <<"glioma", "meningioma", "notumor", "pituitary">>

NumClasses == Len(CLASS_NAMES)

Classes == {CLASS_NAMES[i] : i \in 1..NumClasses}

(***************************************************************************)
(* allowed_file: '.' in filename and                                        *)
(*               filename.rsplit('.', 1)[1].lower() in allowed_extensions   *)
(***************************************************************************)
allowed_extensions ==
    { <<"p","n","g">>, <<"j","p","g">>, <<"j","p","e","g">>,
      <<"g","i","f">>, <<"b","m","p">>, <<"t","i","f","f">> }

LowerChar(c) ==
    CASE c = "P" -> "p"
      [] c = "N" -> "n"
      [] c = "G" -> "g"
      [] c = "J" -> "j"
      [] c = "T" -> "t"
      [] c = "X" -> "x"
      [] OTHER -> c

lower(s) == [i \in 1..Len(s) |-> LowerChar(s[i])]

HasDot(s) == \E i \in 1..Len(s) : s[i] = "."

\* s.rsplit('.', 1)[1]: what follows the last dot of s (s holds a dot)
rsplit_last(s) ==
    LET k == CHOOSE i \in 1..Len(s) :
                 s[i] = "." /\ \A j \in (i+1)..Len(s) : s[j] # "."
    IN  SubSeq(s, k + 1, Len(s))

allowed_file_nolower(filename) ==
    HasDot(filename) /\ rsplit_last(filename) \in allowed_extensions

allowed_file(filename) ==
    HasDot(filename) /\ lower(rsplit_last(filename)) \in allowed_extensions

(***************************************************************************)
(* Numeric helpers of the Predictor.                                        *)
(***************************************************************************)
RECURSIVE SumSeq(_)
SumSeq(s) == IF s = <<>> THEN 0 ELSE Head(s) + SumSeq(Tail(s))

\* e^x in thousandths, for the logits the model enumerates
ExpMilli(x) == IF x = 0 THEN 1000 ELSE 2718

\* tf.nn.softmax(row): exp(row[i]) / sum_j exp(row[j])
softmax(row) ==
    LET e == [i \in 1..Len(row) |-> ExpMilli(row[i])]
    IN  [i \in 1..Len(row) |-> (e[i] * 1000) \div SumSeq(e)]

\* np.argmax over a vector: the FIRST index holding the maximum (0-based)
argmax_last(v) ==
    (CHOOSE i \in 1..Len(v) :
        /\ \A j \in 1..Len(v) : v[j] <= v[i]
        /\ \A j \in (i+1)..Len(v) : v[j] < v[i]) - 1

argmax(v) ==
    (CHOOSE i \in 1..Len(v) :
        /\ \A j \in 1..Len(v) : v[j] <= v[i]
        /\ \A j \in 1..(i-1) : v[j] < v[i]) - 1

(***************************************************************************)
(* State.                                                                   *)
(*   model            the module-level model: loaded or not (None), and the *)
(*                    shape of what its predict() returns                   *)
(*   prediction_stats the module-level statistics dictionary                *)
(*   clock            the wall clock, which datetime.now() reads            *)
(*   request          the request being answered (history)                 *)
(*   call             the Predictor call of that request, if any (history)  *)
(*   response         the response sent for it                              *)
(*   nCalls, nResults Predictor calls made / that returned a result         *)
(*   updatesOn        per calendar date, the update_statistics calls made   *)
(*   pc, frame        threads inside update_statistics (concurrent spec)    *)
(***************************************************************************)
VARIABLES model, prediction_stats, clock, request, call, response,
          nCalls, nResults, updatesOn, pc, frame

vars == <<model, prediction_stats, clock, request, call, response,
          nCalls, nResults, updatesOn, pc, frame>>

Dates == 0..MaxDay

DateTimes == [date : Dates, tod : TimesOfDay]

\* datetime ordering
Before(a, b) == a.date < b.date \/ (a.date = b.date /\ a.tod < b.tod)

(***************************************************************************)
(* Inputs the environment supplies.                                         *)
(***************************************************************************)
\* Uploaded images: Image.open succeeds?  image.verify() succeeds?  does a
\* later load of the pixel data (convert, resize, copy) succeed?
Images ==
    { [open_ok |-> FALSE, verify_ok |-> FALSE, load_ok |-> FALSE],
      [open_ok |-> TRUE,  verify_ok |-> FALSE, load_ok |-> FALSE],
      [open_ok |-> TRUE,  verify_ok |-> TRUE,  load_ok |-> FALSE],
      [open_ok |-> TRUE,  verify_ok |-> TRUE,  load_ok |-> TRUE] }

\* Image.new('RGB', IMG_SIZE, color='white')
BlankImage == [open_ok |-> TRUE, verify_ok |-> TRUE, load_ok |-> TRUE]

Filenames ==
    { <<>>,
      <<"p","n","g">>,
      <<"a",".","t","x","t">>,
      <<"a",".","P","n","G">>,
      <<"a",".","p","n","g",".","t","x","t">>,
      <<"a",".","t","x","t",".","j","p","g">> }

Files == [filename : Filenames, image : Images]

ContentLengths ==
    { MAX_CONTENT_LENGTH, MAX_CONTENT_LENGTH + 1 }

\* 4-vectors of probabilities (thousandths) summing to 1
ProbVectors ==
    { v \in [1..NumClasses -> {0, 500, 1000}] : SumSeq(v) = 1000 }

Logits == {0, 1}

OutputWidths == {NumClasses - 1, NumClasses}

Models ==
    { [loaded |-> FALSE, ndim |-> 0, width |-> 0] }
    \cup [loaded : {TRUE}, ndim : {2}, width : OutputWidths]
    \cup { [loaded |-> TRUE, ndim |-> 1, width |-> NumClasses] }

\* the Predictor is not reached and draws nothing
NoDraw == [raises |-> None, ndim |-> 0, data |-> <<>>]

Messages == {"", "inference failed"}

\* What one Predictor call draws from its environment: the Dirichlet sample
\* when no model is loaded, otherwise what model.predict does (raise, or
\* return an array of the model's output shape).
Draws(m) ==
    IF ~m.loaded
    THEN { [raises |-> None, ndim |-> 1, data |-> v] : v \in ProbVectors }
    ELSE { [raises |-> Some(msg), ndim |-> 0, data |-> <<>>] : msg \in Messages }
         \cup (IF m.ndim = 2
               THEN { [raises |-> None, ndim |-> 2, data |-> <<row>>] :
                        row \in [1..m.width -> Logits] }
               ELSE { [raises |-> None, ndim |-> 1, data |-> v] :
                        v \in ProbVectors })

(***************************************************************************)
(* update_statistics(predicted_class), run without interruption.            *)
(***************************************************************************)
InitialStats ==
    [ total_predictions    |-> 0,
      predictions_today    |-> 0,
      last_prediction_time |-> None,
      class_distribution   |-> [c \in Classes |-> 0] ]

\* lines 106-113 with the day test of line 108 dropped
predictions_today_noreset(stats, now) ==
    IF stats.last_prediction_time # None
    THEN stats.predictions_today + 1
    ELSE 1

\* lines 106-113
predictions_today_after(stats, now) ==
    IF stats.last_prediction_time # None
    THEN LET last_date == Get(stats.last_prediction_time).date
         IN  IF now.date > last_date
             THEN 1
             ELSE stats.predictions_today + 1
    ELSE 1

\* line 116 skipped
class_distribution_same(stats, predicted_class) == stats.class_distribution

\* line 116
class_distribution_after(stats, predicted_class) ==
    [stats.class_distribution EXCEPT ![predicted_class] = @ + 1]

\* line 115 keeping only the date
last_prediction_time_dateonly(now) == Some([date |-> now.date, tod |-> 0])

\* line 115
last_prediction_time_after(now) == Some(now)

\* line 104 skipped
total_predictions_same(stats) == stats.total_predictions

\* line 104
total_predictions_after(stats) == stats.total_predictions + 1

update_statistics(stats, now, predicted_class) ==
    [ total_predictions    |-> total_predictions_after(stats),
      predictions_today    |-> predictions_today_after(stats, now),
      last_prediction_time |-> last_prediction_time_after(now),
      class_distribution   |-> class_distribution_after(stats, predicted_class) ]

(***************************************************************************)
(* predict_image(image): (result, error) and the statistics it leaves.      *)
(***************************************************************************)
\* updates: how many times the call ran update_statistics
Returned(result, error, stats, updates) ==
    [result |-> result, error |-> error, stats |-> stats, updates |-> updates]

\* lines 144-155: the result dictionary
BuildResult(probs, predicted_class, confidence) ==
    [ predicted_class   |-> predicted_class,
      confidence        |-> confidence,
      all_probabilities |->
          [c \in Classes |->
              LET i == CHOOSE k \in 1..NumClasses : CLASS_NAMES[k] = c
              IN  [probability |-> probs[i], percentage |-> probs[i] * 100]] ]

\* np.argmax(probs): of a scalar (0-d) value it is 0
np_argmax(probs) == IF probs.ndim = 0 THEN 0 ELSE argmax(probs.data)

\* a[0] of a numpy array: a row of a 2-D array, a scalar of a 1-D array
FirstOf(a) == [ndim |-> a.ndim - 1, data |-> a.data[1]]

Vector(v) == [ndim |-> 1, data |-> v]

\* lines 136-157 (124-126 and 140-157 without a model) for probabilities
\* probs
Classify(probs, stats, now) ==
    LET predicted_idx == np_argmax(probs)
    IN  IF predicted_idx >= NumClasses
        THEN \* CLASS_NAMES[predicted_idx] raises IndexError
             Returned(None, Some("list index out of range"), stats, 0)
        ELSE IF probs.ndim = 0
        THEN \* probs[predicted_idx] of a scalar raises IndexError
             Returned(None, Some("invalid index to scalar variable."), stats, 0)
        ELSE LET predicted_class == CLASS_NAMES[predicted_idx + 1]
                 confidence      == probs.data[predicted_idx + 1]
                 updated         == update_statistics(stats, now, predicted_class)
             IN  IF Len(probs.data) < NumClasses
                 THEN \* probs[i] at lines 149-150 raises IndexError, after
                      \* update_statistics has run at line 141
                      Returned(None, Some("index out of bounds"), updated, 1)
                 ELSE Returned(Some(BuildResult(probs.data, predicted_class,
                                                confidence)),
                               None, updated, 1)

predict_image(m, image, draw, stats, now) ==
    IF ~m.loaded
    THEN \* lines 122-126
         Classify(Vector(draw.data), stats, now)
    ELSE IF ~image.load_ok
         THEN \* preprocess_for_inference: convert/resize load the pixels
              Returned(None, Some("image file is truncated"), stats, 0)
         ELSE IF draw.raises # None
              THEN \* model.predict raised
                   Returned(None, Some(Get(draw.raises)), stats, 0)
              ELSE LET predictions == [ndim |-> draw.ndim, data |-> draw.data]
                       probs == IF predictions.ndim = 2
                                THEN Vector(softmax(FirstOf(predictions).data))
                                ELSE FirstOf(predictions)
                   IN  Classify(probs, stats, now)

(***************************************************************************)
(* The request handlers.                                                    *)
(***************************************************************************)
Response(status, kind, error, result, stats) ==
    [status |-> status, kind |-> kind, error |-> error, result |-> result,
     stats |-> stats]

ErrorJson(status, message) ==
    Response(status, "error_json", Some(message), None, None)

Handled(resp, stats, called) ==
    [response |-> resp, stats |-> stats, call |-> called]

Call(draw, out) ==
    Some([draw |-> draw, result |-> out.result, error |-> out.error,
          updates |-> out.updates])

\* werkzeug raises RequestEntityTooLarge when the form data of a request whose
\* Content-Length exceeds MAX_CONTENT_LENGTH (line 12) is first read, which is
\* the request.files access of line 183
request_files_raises(req) == req.content_length > MAX_CONTENT_LENGTH

\* lines 210-223 after the "if error" test of line 207 let the request pass
Preview(req, image, draw, out) ==
    IF ~image.load_ok
    THEN \* image.copy() loads the pixel data and raises; caught at line 225
         Handled(ErrorJson(500, "image file is truncated"), out.stats,
                 Call(draw, out))
    ELSE IF out.result = None
    THEN \* result['image_preview'] = ... on None raises TypeError
         Handled(ErrorJson(500, "'NoneType' object does not support item assignment"),
                 out.stats, Call(draw, out))
    ELSE Handled(Response(200, "prediction_json", None, out.result,
                          Some(out.stats)),
                 out.stats, Call(draw, out))

\* POST /predict, lines 181-202: the response that ends the request before
\* the Predictor is reached, None when every check passes
validate(req) ==
    IF request_files_raises(req)
    THEN \* the exception is raised inside the try of line 181 and caught by
         \* the except of line 225
         Some(ErrorJson(500, "413 Request Entity Too Large"))
    ELSE IF req.file = None
    THEN Some(ErrorJson(400, "No file uploaded"))
    ELSE LET file == Get(req.file) IN
    IF file.filename = <<>>
    THEN Some(ErrorJson(400, "No file selected"))
    ELSE IF ~allowed_file(file.filename)
    THEN Some(ErrorJson(400, "File type not allowed. Please use PNG, JPG, JPEG, GIF, BMP, or TIFF"))
    ELSE IF ~(file.image.open_ok /\ file.image.verify_ok)
    THEN Some(ErrorJson(400, "Invalid image file"))
    ELSE None

\* POST /predict, lines 178-227
predict(m, req, draw, stats, now) ==
    IF validate(req) # None
    THEN Handled(Get(validate(req)), stats, None)
    ELSE LET file == Get(req.file)
             out  == predict_image(m, file.image, draw, stats, now)
         IN  IF out.error # None /\ Get(out.error) # ""
             THEN Handled(ErrorJson(500, Get(out.error)), out.stats,
                          Call(draw, out))
             ELSE Preview(req, file.image, draw, out)

\* GET /test-image, lines 237-255
test_image(m, draw, stats, now) ==
    LET out == predict_image(m, BlankImage, draw, stats, now) IN
    IF out.error # None /\ Get(out.error) # ""
    THEN Handled(Response(200, "error_text", out.error, None, None),
                 out.stats, Call(draw, out))
    ELSE Handled(Response(200, "test_success_json", None, out.result, None),
                 out.stats, Call(draw, out))

\* GET /api/statistics, lines 229-231
get_statistics(stats) ==
    Handled(Response(200, "statistics_json", None, None, Some(stats)), stats, None)

PredictRequests ==
    [route : {"/predict"}, content_length : ContentLengths,
     file : {None} \cup {Some(f) : f \in Files}]

GetRequest(route) == [route |-> route, content_length |-> 0, file |-> None]

(***************************************************************************)
(* Requests served one at a time.                                           *)
(***************************************************************************)
Init ==
    /\ model \in Models
    /\ prediction_stats = InitialStats
    /\ clock \in DateTimes
    /\ request = None
    /\ call = None
    /\ response = None
    /\ nCalls = 0
    /\ nResults = 0
    /\ updatesOn = [d \in Dates |-> 0]
    /\ pc = [t \in Threads |-> "idle"]
    /\ frame = [t \in Threads |-> [now |-> clock, predicted_class |-> CLASS_NAMES[1],
                                   tmp |-> 0, last_date |-> 0]]

\* bookkeeping of a served request
Serve(req, h) ==
    /\ request' = Some(req)
    /\ response' = Some(h.response)
    /\ call' = h.call
    /\ prediction_stats' = h.stats
    /\ nCalls' = IF h.call = None THEN nCalls ELSE nCalls + 1
    /\ nResults' = IF h.call # None /\ Get(h.call).result # None
                   THEN nResults + 1 ELSE nResults
    /\ updatesOn' = IF h.call = None
                    THEN updatesOn
                    ELSE [updatesOn EXCEPT ![clock.date] = @ + Get(h.call).updates]
    /\ UNCHANGED <<model, clock, pc, frame>>

PredictRoute ==
    /\ request = None
    /\ nCalls < MaxCalls
    /\ \E req \in PredictRequests :
         \E draw \in IF validate(req) = None THEN Draws(model) ELSE {NoDraw} :
           Serve(req, predict(model, req, draw, prediction_stats, clock))

TestImageRoute ==
    /\ request = None
    /\ nCalls < MaxCalls
    /\ \E draw \in Draws(model) :
           Serve(GetRequest("/test-image"),
                 test_image(model, draw, prediction_stats, clock))

StatisticsRoute ==
    /\ request = None
    /\ Serve(GetRequest("/api/statistics"), get_statistics(prediction_stats))

\* the response has gone to the client; the request's objects are discarded
Respond ==
    /\ request # None
    /\ request' = None
    /\ call' = None
    /\ response' = None
    /\ UNCHANGED <<model, prediction_stats, clock, nCalls, nResults, updatesOn,
                   pc, frame>>

\* the wall clock advances (between requests: a handler is one step)
Tick ==
    /\ request = None
    /\ \E t \in DateTimes : Before(clock, t) /\ clock' = t
    /\ UNCHANGED <<model, prediction_stats, request, call, response,
                   nCalls, nResults, updatesOn, pc, frame>>

\* the wall clock is set back (clock adjustment, end of daylight saving time)
ClockBack ==
    /\ request = None
    /\ \E t \in DateTimes : Before(t, clock) /\ clock' = t
    /\ UNCHANGED <<model, prediction_stats, request, call, response,
                   nCalls, nResults, updatesOn, pc, frame>>

Next ==
    \/ PredictRoute
    \/ TestImageRoute
    \/ StatisticsRoute
    \/ Respond
    \/ Tick
    \/ ClockBack

Spec == Init /\ [][Next]_vars

NextMono ==
    \/ PredictRoute
    \/ TestImageRoute
    \/ StatisticsRoute
    \/ Respond
    \/ Tick

SpecMono == Init /\ [][NextMono]_vars

(***************************************************************************)
(* Requests served by concurrent threads (app.run serves each request in   *)
(* its own thread).  update_statistics takes no lock, and Python does not   *)
(* make d[k] += 1 atomic: it is a load of d[k], an addition and a store.    *)
(* Each action below is one access to the shared dictionary together with   *)
(* the thread-local computation around it.  A thread enters                 *)
(* update_statistics from line 141 with the class the Predictor chose.      *)
(***************************************************************************)
InitConc ==
    /\ Init
    /\ ~model.loaded
    /\ clock = [date |-> 0, tod |-> 0]

Goto(t, label) == pc' = [pc EXCEPT ![t] = label]

SeqVars == <<model, request, call, response, nCalls, nResults, updatesOn>>

\* line 103: now = datetime.now()
Enter(t) ==
    /\ pc[t] = "idle"
    /\ \E c \in Classes :
         frame' = [frame EXCEPT ![t] = [now |-> clock, predicted_class |-> c,
                                        tmp |-> 0, last_date |-> 0]]
    /\ Goto(t, "104r")
    /\ UNCHANGED <<prediction_stats, clock, SeqVars>>

\* the value a thread stores back at lines 104, 111 and 116, twice added
Incremented2(t) == frame[t].tmp + 2

\* the value a thread stores back at lines 104, 111 and 116
Incremented(t) == frame[t].tmp + 1

\* line 104, the load of prediction_stats["total_predictions"]
Load104(t) ==
    /\ pc[t] = "104r"
    /\ frame' = [frame EXCEPT ![t].tmp = prediction_stats.total_predictions]
    /\ Goto(t, "104w")
    /\ UNCHANGED <<prediction_stats, clock, SeqVars>>

\* line 104, the store
Store104(t) ==
    /\ pc[t] = "104w"
    /\ prediction_stats' =
         [prediction_stats EXCEPT !.total_predictions = Incremented(t)]
    /\ frame' = [frame EXCEPT ![t].tmp = 0]
    /\ Goto(t, "106")
    /\ UNCHANGED <<clock, SeqVars>>

\* line 106
Load106(t) ==
    /\ pc[t] = "106"
    /\ Goto(t, IF prediction_stats.last_prediction_time # None
               THEN "107" ELSE "113")
    /\ UNCHANGED <<prediction_stats, clock, frame, SeqVars>>

\* lines 107-108
Load107(t) ==
    /\ pc[t] = "107"
    /\ LET last_date == Get(prediction_stats.last_prediction_time).date
       IN  Goto(t, IF frame[t].now.date > last_date THEN "109" ELSE "111r")
    /\ UNCHANGED <<prediction_stats, clock, frame, SeqVars>>

\* line 109
Store109(t) ==
    /\ pc[t] = "109"
    /\ prediction_stats' = [prediction_stats EXCEPT !.predictions_today = 1]
    /\ Goto(t, "115")
    /\ UNCHANGED <<clock, frame, SeqVars>>

\* line 111, the load
Load111(t) ==
    /\ pc[t] = "111r"
    /\ frame' = [frame EXCEPT ![t].tmp = prediction_stats.predictions_today]
    /\ Goto(t, "111w")
    /\ UNCHANGED <<prediction_stats, clock, SeqVars>>

\* line 111, the store
Store111(t) ==
    /\ pc[t] = "111w"
    /\ prediction_stats' =
         [prediction_stats EXCEPT !.predictions_today = Incremented(t)]
    /\ frame' = [frame EXCEPT ![t].tmp = 0]
    /\ Goto(t, "115")
    /\ UNCHANGED <<clock, SeqVars>>

\* line 113
Store113(t) ==
    /\ pc[t] = "113"
    /\ prediction_stats' = [prediction_stats EXCEPT !.predictions_today = 1]
    /\ Goto(t, "115")
    /\ UNCHANGED <<clock, frame, SeqVars>>

\* line 115
Store115(t) ==
    /\ pc[t] = "115"
    /\ prediction_stats' =
         [prediction_stats EXCEPT !.last_prediction_time = Some(frame[t].now)]
    /\ Goto(t, "116r")
    /\ UNCHANGED <<clock, frame, SeqVars>>

\* line 116, the load of class_distribution[predicted_class]
Load116(t) ==
    /\ pc[t] = "116r"
    /\ frame' = [frame EXCEPT ![t].tmp =
                   prediction_stats.class_distribution[frame[t].predicted_class]]
    /\ Goto(t, "116w")
    /\ UNCHANGED <<prediction_stats, clock, SeqVars>>

\* line 116, the store; update_statistics returns
Store116(t) ==
    /\ pc[t] = "116w"
    /\ prediction_stats' =
         [prediction_stats EXCEPT
            !.class_distribution[frame[t].predicted_class] = Incremented(t)]
    /\ frame' = [frame EXCEPT ![t].tmp = 0]
    /\ Goto(t, "done")
    /\ UNCHANGED <<clock, SeqVars>>

NextConc ==
    \/ \E t \in Threads : Enter(t)
    \/ \E t \in Threads : Load104(t)
    \/ \E t \in Threads : Store104(t)
    \/ \E t \in Threads : Load106(t)
    \/ \E t \in Threads : Load107(t)
    \/ \E t \in Threads : Store109(t)
    \/ \E t \in Threads : Load111(t)
    \/ \E t \in Threads : Store111(t)
    \/ \E t \in Threads : Store113(t)
    \/ \E t \in Threads : Store115(t)
    \/ \E t \in Threads : Load116(t)
    \/ \E t \in Threads : Store116(t)
    \/ Tick

SpecConc == InitConc /\ [][NextConc]_vars

\* update_statistics calls that have returned
Completed == Cardinality({t \in Threads : pc[t] = "done"})

(***************************************************************************)
(* Properties.                                                              *)
(***************************************************************************)
Req == Get(request)

Resp == Get(response)

\* a POST /predict request has just been answered
PredictAnswered == request # None /\ Req.route = "/predict"

WithinCeiling == Req.content_length <= MAX_CONTENT_LENGTH

\* the filenames of Filenames whose extension, compared case-insensitively,
\* is one of png, jpg, jpeg, gif, bmp, tiff
C1_AllowedNames ==
    { <<"a",".","P","n","G">>, <<"a",".","t","x","t",".","j","p","g">> }

\* the four validation checks of the request handler, by number; 0: all pass
C1_FirstFailingCheck ==
    IF Req.file = None THEN 1
    ELSE IF Get(Req.file).filename = <<>> THEN 2
    ELSE IF Get(Req.file).filename \notin C1_AllowedNames THEN 3
    ELSE IF ~(Get(Req.file).image.open_ok /\ Get(Req.file).image.verify_ok) THEN 4
    ELSE 0

C1_PredictorInvokedOnlyWhenValid ==
    call # None => C1_FirstFailingCheck = 0

\* C1 as stated: every POST /predict request is answered by the first failing
\* check in the order no file part (400, "No file uploaded"), empty filename
\* (400), extension not allowed (400), decode or verification failure (400),
\* Predictor error (500), and otherwise 200; the Predictor is invoked only
\* when the four validation checks passed.  (Read for the requests within the
\* upload ceiling; the others are the subject of C2.)
C1_Original ==
    (PredictAnswered /\ WithinCeiling) =>
        /\ C1_PredictorInvokedOnlyWhenValid
        /\ C1_FirstFailingCheck = 0 => call # None
        /\ Resp.status =
             IF C1_FirstFailingCheck # 0 THEN 400
             ELSE IF Get(call).error # None THEN 500
             ELSE 200
        /\ C1_FirstFailingCheck = 1 => Resp.error = Some("No file uploaded")

\* C1 amended: for a POST /predict request within the upload ceiling the
\* response is 400 at the first failing validation check (no file part, with
\* "No file uploaded"; empty filename; extension not allowed; decode or
\* verification failure), else 500 when the Predictor returns an error, else
\* 500 when building the preview raises (the pixel data cannot be loaded),
\* and 200 otherwise; the Predictor is invoked only when the four validation
\* checks passed.
C1_Amended ==
    (PredictAnswered /\ WithinCeiling) =>
        /\ C1_PredictorInvokedOnlyWhenValid
        /\ C1_FirstFailingCheck = 0 => call # None
        /\ Resp.status =
             IF C1_FirstFailingCheck # 0 THEN 400
             ELSE IF Get(call).error # None THEN 500
             ELSE IF ~Get(Req.file).image.load_ok THEN 500
             ELSE 200
        /\ C1_FirstFailingCheck = 1 => Resp.error = Some("No file uploaded")

\* a request that passed validation and whose Predictor call returned a
\* result is answered 500 because the preview could not be built
C1_Witness ==
    /\ PredictAnswered /\ WithinCeiling
    /\ call # None /\ Get(call).result # None
    /\ Resp.status = 500

\* C2: a POST /predict request whose body exceeds the 16 MiB ceiling is
\* answered 413 and never with another status.
C2_Original ==
    (PredictAnswered /\ ~WithinCeiling) => Resp.status = 413

\* C3: without concurrency, when each of the N Predictor calls made so far
\* returned a result, total_predictions is its initial value 0 plus N.
C3_TotalCountsResults ==
    nResults = nCalls =>
        prediction_stats.total_predictions =
            InitialStats.total_predictions + nCalls

\* two Predictor calls, the second from GET /test-image, both returned a
\* result
C3_Witness ==
    /\ nCalls = 2 /\ nResults = 2
    /\ prediction_stats.total_predictions = 2
    /\ request # None /\ Req.route = "/test-image"

UpdatesMade == SumSeq([i \in 1..(MaxDay + 1) |-> updatesOn[i - 1]])

UpdatesMadeNext == SumSeq([i \in 1..(MaxDay + 1) |-> updatesOn'[i - 1]])

\* C4: a call of update_statistics sets predictions_today to 1 when
\* last_prediction_time is unset or its date is strictly before the current
\* date, increments it by 1 in every other case, and leaves
\* last_prediction_time at the timestamp the call took.
C4_DailyCounterStep ==
    [][ UpdatesMadeNext = UpdatesMade + 1 =>
          /\ prediction_stats'.predictions_today =
               IF \/ prediction_stats.last_prediction_time = None
                  \/ Get(prediction_stats.last_prediction_time).date < clock.date
               THEN 1
               ELSE prediction_stats.predictions_today + 1
          /\ prediction_stats'.last_prediction_time = Some(clock) ]_vars

\* an update made on an earlier date than the previous one (the clock was set
\* back) incremented the daily counter
C4_Witness ==
    /\ prediction_stats.predictions_today = 2
    /\ prediction_stats.last_prediction_time # None
    /\ Get(prediction_stats.last_prediction_time).date = 0
    /\ Get(prediction_stats.last_prediction_time).tod = 1
    /\ updatesOn[0] = 1 /\ updatesOn[1] = 1

\* C5: in every result the Predictor returns, predicted_class is the class at
\* the argmax (the first maximum) of the probabilities reported in
\* all_probabilities, and confidence is the probability reported for it.
C5_ArgmaxAndConfidence ==
    (call # None /\ Get(call).result # None) =>
        LET r == Get(Get(call).result)
            k == CHOOSE i \in 1..NumClasses : CLASS_NAMES[i] = r.predicted_class
            p(i) == r.all_probabilities[CLASS_NAMES[i]].probability
        IN  /\ r.predicted_class \in Classes
            /\ \A i \in 1..NumClasses : p(i) <= p(k)
            /\ \A i \in 1..(k - 1) : p(i) < p(k)
            /\ r.confidence = p(k)

\* a loaded model's result whose maximum is shared by two classes and is not
\* held by the first class
C5_Witness ==
    /\ model.loaded
    /\ call # None /\ Get(call).result # None
    /\ Get(Get(call).result).predicted_class = CLASS_NAMES[2]
    /\ Get(Get(call).result).all_probabilities[CLASS_NAMES[4]].probability
         = Get(Get(call).result).confidence

Stored104 ==
    Cardinality({t \in Threads : pc[t] \notin {"idle", "104r", "104w"}})

SumDistribution ==
    SumSeq([i \in 1..NumClasses |->
              prediction_stats.class_distribution[CLASS_NAMES[i]]])

\* C6: with unsynchronised concurrent calls of update_statistics the counters
\* can fall behind the number of updates (C6_LostUpdate) and never run ahead of
\* it: total_predictions is at most the number of stores made at line 104 and
\* the class counts sum to at most the number of completed updates, and each
\* is at least 1 once one such store was made.
C6_CountersNeverAhead ==
    /\ prediction_stats.total_predictions <= Stored104
    /\ Stored104 > 0 => prediction_stats.total_predictions >= 1
    /\ SumDistribution <= Completed
    /\ Completed > 0 => SumDistribution >= 1

\* both updates completed, for the same class, and one update of
\* total_predictions and one of the class count were lost
C6_LostUpdate ==
    /\ Completed = 2
    /\ prediction_stats.total_predictions < Completed
    /\ frame[1].predicted_class = frame[2].predicted_class
    /\ prediction_stats.class_distribution[frame[1].predicted_class] < Completed

\* the image the Predictor was called with
CalledImage ==
    IF Req.route = "/predict" THEN Get(Req.file).image ELSE BlankImage

\* C7: with a model loaded, a 2-D output gives the softmax of its first row
\* as the probabilities of the result, and a 1-D output of 4 entries is used
\* directly as the probabilities of a result the Predictor returns.
C7_Original ==
    (call # None /\ model.loaded /\ CalledImage.load_ok
       /\ Get(call).draw.raises = None) =>
        LET c == Get(call)
            p(i) == Get(c.result).all_probabilities[CLASS_NAMES[i]].probability
        IN  /\ (c.draw.ndim = 2 /\ c.result # None) =>
                 \A i \in 1..NumClasses : p(i) = softmax(c.draw.data[1])[i]
            /\ c.draw.ndim = 1 =>
                 /\ c.result # None
                 /\ \A i \in 1..NumClasses : p(i) = c.draw.data[i]

\* C8: a Predictor call that returns a result has run update_statistics
\* exactly once, and one that returns an error string leaves prediction_stats
\* unchanged.
C8_Original ==
    [][ (request = None /\ call' # None) =>
          /\ Get(call').result # None =>
               /\ Get(call').updates = 1
               /\ prediction_stats'.total_predictions =
                    prediction_stats.total_predictions + 1
          /\ Get(call').error # None =>
               prediction_stats' = prediction_stats ]_vars

\* C9: with a non-decreasing clock and no concurrency, after every update
\* predictions_today is the number of updates made on the calendar date of
\* last_prediction_time (the counter restarts at 1 at the first update of
\* each new date).
C9_DailyCounterIsCountOfDay ==
    /\ prediction_stats.last_prediction_time = None => UpdatesMade = 0
    /\ prediction_stats.last_prediction_time # None =>
         prediction_stats.predictions_today =
             updatesOn[Get(prediction_stats.last_prediction_time).date]

\* the second update came on a new date and restarted the counter
C9_Witness ==
    /\ updatesOn[0] = 1 /\ updatesOn[1] = 1
    /\ prediction_stats.predictions_today = 1
    /\ Get(prediction_stats.last_prediction_time).date = 1

\* C10: without concurrency, total_predictions is the sum of the class
\* counts, predictions_today <= total_predictions, and predictions_today >= 1
\* exactly when last_prediction_time is set (both 0 / unset before the first
\* prediction).
C10_StatisticsConsistent ==
    /\ prediction_stats.total_predictions = SumDistribution
    /\ prediction_stats.predictions_today <= prediction_stats.total_predictions
    /\ prediction_stats.predictions_today >= 1
         <=> prediction_stats.last_prediction_time # None
    /\ prediction_stats.last_prediction_time = None =>
         /\ prediction_stats.predictions_today = 0
         /\ prediction_stats.total_predictions = 0

\* two predictions of different classes, the second on a later date
C10_Witness ==
    /\ prediction_stats.total_predictions = 2
    /\ prediction_stats.predictions_today = 1
    /\ prediction_stats.class_distribution[CLASS_NAMES[1]] = 1
    /\ prediction_stats.class_distribution[CLASS_NAMES[4]] = 1

====
